---- MODULE Spec2Model ----
(***************************************************************************)
(* Qatsi: hierarchical Argon2id key derivation (kdf.rs) followed by        *)
(* deterministic rejection sampling of words or characters from a          *)
(* ChaCha20 keystream (generator.rs), the shared word table (wordlist.rs)  *)
(* and one run of the program (main.rs).                                   *)
(*                                                                         *)
(* Byte strings are sequences of 0..255.  A value that is used as a KDF    *)
(* password or key is a tagged tuple: <<"raw", bytes>> for bytes given by  *)
(* the caller, <<"argon2id", params, password, salt>> for the output of    *)
(* one Argon2id invocation (a collision-free, symbolic stand-in for the    *)
(* library's hash).                                                        *)
(***************************************************************************)
EXTENDS Integers, Sequences, FiniteSets, TLC

VARIABLES
    \* ---- kdf.rs: derive_hierarchical ----
    d_pc,            \* position inside derive_hierarchical
    master_secret,   \* argument: master secret bytes
    layers,          \* argument: ordered layer list
    config,          \* argument: Argon2Config
    params,          \* local: Params built from config (NoParams before)
    current_key,     \* local: current_key buffer
    li,              \* 1-based index into layers of the loop's next layer
    stages,          \* history: the hash_password_into calls of this call
    d_result,        \* the Result returned by the call
    d_prev,          \* history: the last call that returned a key
    d_freed,         \* history: the buffers this call created and dropped
    \* ---- generator.rs: generate_mnemonic / generate_password ----
    g_pc,            \* position inside the generate_* call
    g_fn,            \* which function is running
    key,             \* argument: 32-byte key
    count,           \* argument: word_count / password_length
    cipher_pos,      \* ChaCha20 state: keystream bytes produced so far
    buffer,          \* local: working buffer
    pos,             \* local: read cursor into buffer
    words,           \* local: Vec of sampled words
    password_bytes,  \* local: Vec of sampled alphabet bytes
    draws,           \* history: the values read from the buffer, in order
    g_result,        \* the Result returned by the call
    g_prev,          \* history: inputs and result of the previous call
    g_freed,         \* history: the buffers this call created and dropped
    \* ---- generator.rs: the arithmetic of the rejection thresholds ----
    a_pc,            \* "init" before, "done" after the computation
    a_kind,          \* "word" (16-bit values) or "char" (bytes)
    a_size,          \* wordlist_len / alphabet_size
    a_index,         \* a symbol index below a_size
    a_threshold,     \* the rejection threshold computed
    a_count,         \* how many accepted values select a_index
    \* ---- wordlist.rs: the static WORDLIST and the calls of get_wordlist ----
    asset_len,       \* entries the embedded asset parses to
    once_state,      \* state of the OnceLock
    once_value,      \* length of the table the OnceLock holds (0: empty)
    once_stores,     \* history: how often a table was stored
    t_pc,            \* per thread: position inside get_wordlist
    t_ret,           \* per thread: length of the table last returned
    \* ---- main.rs: one run of the program ----
    r_pc,            \* position inside main
    r_mode,          \* cli.mode
    r_count,         \* word_count / password_length of output_config
    r_config,        \* kdf_config
    r_master,        \* master_secret read by prompt_master_secret
    r_layers,        \* layers read by prompt_layers
    r_final_key,     \* final_key inside the closure
    r_output,        \* output returned by the closure
    r_shown,         \* what display_output has printed
    r_entered,       \* history: the secret as it was typed at the prompt
    r_error,         \* the error main has returned with ("" if none)
    \* ---- ui.rs: prompt_layers ----
    pl_pc,           \* position inside prompt_layers
    pl_entered,      \* input: non-empty lines typed before the empty line
    pl_index,        \* local: index
    pl_layers,       \* local: layers
    pl_layer_infos,  \* local: layer_infos (the index of each entry)
    pl_result,       \* the Result returned by the call
    \* ---- main.rs: kdf_config from the command line ----
    c_pc,            \* "init" before, "done" after lines 121-134
    c_security,      \* cli.security
    c_kdf_memory,    \* cli.kdf_memory
    c_kdf_iterations,    \* cli.kdf_iterations
    c_kdf_parallelism,   \* cli.kdf_parallelism
    c_overflow_checks,   \* the build panics on integer overflow
    c_config         \* kdf_config after line 134

kdfVars == <<d_pc, master_secret, layers, config, params, current_key, li,
             stages, d_result, d_prev, d_freed>>
genVars == <<g_pc, g_fn, key, count, cipher_pos, buffer, pos, words,
             password_bytes, draws, g_result, g_prev, g_freed>>
arithVars == <<a_pc, a_kind, a_size, a_index, a_threshold, a_count>>
wlVars == <<asset_len, once_state, once_value, once_stores, t_pc, t_ret>>
runVars == <<r_pc, r_mode, r_count, r_config, r_master, r_layers,
             r_final_key, r_output, r_shown, r_entered, r_error>>
plVars == <<pl_pc, pl_entered, pl_index, pl_layers, pl_layer_infos,
            pl_result>>
cfgVars == <<c_pc, c_security, c_kdf_memory, c_kdf_iterations,
             c_kdf_parallelism, c_overflow_checks, c_config>>
vars == <<kdfVars, genVars, arithVars, wlVars, runVars, plVars, cfgVars>>
\* what an action of one component leaves alone
outsideKdf == <<genVars, arithVars, wlVars, runVars, plVars, cfgVars>>
outsideGen == <<kdfVars, arithVars, wlVars, runVars, plVars, cfgVars>>
outsideArith == <<kdfVars, genVars, wlVars, runVars, plVars, cfgVars>>
outsideWl == <<kdfVars, genVars, arithVars, runVars, plVars, cfgVars>>
outsideRun == <<arithVars, plVars, cfgVars>>
outsidePl == <<kdfVars, genVars, arithVars, wlVars, runVars, cfgVars>>
outsideCfg == <<kdfVars, genVars, arithVars, wlVars, runVars, plVars>>

(***************************************************************************)
(* Bounds of the model.                                                    *)
(***************************************************************************)
\* longest layer list handed to derive_hierarchical
MaxLayers == 2
\* longest layer (in bytes) handed to derive_hierarchical
MaxLayerLen == 17
\* the counts 0..MaxCount are asked of generate_mnemonic / generate_password
MaxCount == 2
\* a word count that needs more values than one working buffer holds
RefillWords == 257
\* a password length that needs more bytes than one working buffer holds
RefillChars == 760
\* threads that call get_wordlist concurrently
MaxThreads == 3
\* most non-empty lines typed at the layer prompt before the empty line
MaxEntered == 102
\* --kdf-memory values 0..MaxMemoryMib, and as many from 2^22 upwards
MaxMemoryMib == 130

(***************************************************************************)
(* kdf.rs                                                                  *)
(***************************************************************************)
OUTPUT_LEN == 32
MIN_SALT_LEN == 16

STANDARD == [memory_kib |-> 64 * 1024, iterations |-> 16, parallelism |-> 6]
PARANOID == [memory_kib |-> 128 * 1024, iterations |-> 32, parallelism |-> 6]

\* a byte string of n bytes b
Fill(b, n) == [j \in 1..n |-> b]

Raw(bytes) == <<"raw", bytes>>

\* the contents of `Zeroizing::new([0u8; OUTPUT_LEN])`
ZeroKey == Raw(Fill(0, OUTPUT_LEN))

\* variant: the buffer is a plain Vec, freed as it is
KeepBytes(bytes) == bytes

\* Drop of Zeroizing<Vec<u8>>: what the buffer holds once it is dropped
ZeroizeBytes(bytes) == Fill(0, Len(bytes))

\* Drop of Zeroizing<[u8; OUTPUT_LEN]>: what the key buffer holds once it
\* is dropped
ZeroizeKey(k) == ZeroKey

\* a buffer that went out of scope: what it held, and what it was left as
Freed(name, held, left) == [name |-> name, held |-> held, left |-> left]

NoParams == [memory_kib |-> 0, iterations |-> 0, parallelism |-> 0,
             output_len |-> 0]

\* Params::new(m_cost, t_cost, p_cost, Some(output_len)): the argon2 crate
\* rejects p_cost < 1, t_cost < 1, m_cost < 8 * p_cost.
ParamsValid(c) ==
    /\ c.parallelism >= 1
    /\ c.iterations >= 1
    /\ c.memory_kib >= 8 * c.parallelism

ParamsNew(c) == [memory_kib |-> c.memory_kib, iterations |-> c.iterations,
                 parallelism |-> c.parallelism, output_len |-> OUTPUT_LEN]

\* Blake2b512: a 64-byte digest.  Stand-in that is injective on inputs of
\* fewer than 63 bytes: the length, the shifted input, then padding.
Blake2b512(bytes) ==
    [j \in 1..64 |->
        IF j = 1 THEN Len(bytes)
        ELSE IF j - 1 <= Len(bytes) THEN (bytes[j - 1] + 101) % 256
        ELSE (37 * j + Len(bytes)) % 256]

\* variant: the comparison with MIN_SALT_LEN is strict
NormalizeSaltStrict(salt_input) ==
    IF Len(salt_input) > MIN_SALT_LEN
    THEN salt_input
    ELSE Blake2b512(salt_input)

\* derive_single, lines 79-85: the salt handed to Argon2
NormalizeSalt(salt_input) ==
    IF Len(salt_input) >= MIN_SALT_LEN
    THEN salt_input
    ELSE Blake2b512(salt_input)

\* Argon2::hash_password_into on success: Argon2id v0x13 of (password, salt)
HashPasswordInto(argon2, password, salt) ==
    <<"argon2id", argon2, password, salt>>

\* derive_single: `fail` is the outcome of hash_password_into, `output` the
\* previous contents of the output buffer (left alone on failure)
derive_single(argon2, password, salt_input, output, fail) ==
    LET salt == NormalizeSalt(salt_input)
    IN  [ok       |-> ~fail,
         password |-> password,
         salt     |-> salt,
         out      |-> IF fail THEN output
                      ELSE HashPasswordInto(argon2, password, salt)]

\* length in bytes of a key value
KeyLen(k) == IF k[1] = "raw" THEN Len(k[2]) ELSE k[2].output_len

NoResult == [tag |-> "none", key |-> ZeroKey, err |-> ""]
Ok(k) == [tag |-> "ok", key |-> k, err |-> ""]
Err(msg) == [tag |-> "err", key |-> ZeroKey, err |-> msg]

NoCall == [called |-> FALSE, master |-> <<>>, layers |-> <<>>,
           config |-> STANDARD, result |-> NoResult]

\* ---- inputs ----
LayerByte == 97
LayerLens == {0, MIN_SALT_LEN - 1, MIN_SALT_LEN, MaxLayerLen}
LayerPool == {Fill(LayerByte, n) : n \in LayerLens}
LayerLists == UNION {[1..n -> LayerPool] : n \in 0..MaxLayers}
Masters == {<<>>, <<109, 115>>}
\* the two presets and a combination Params::new rejects
Configs == {STANDARD, PARANOID,
            [memory_kib |-> 16, iterations |-> 1, parallelism |-> 6]}

\* variant: the first stage continues from the key of the previous call
FirstPasswordStale ==
    IF d_prev.called THEN d_prev.result.key ELSE Raw(master_secret)

\* the password of the first stage (line 57)
FirstPassword == Raw(master_secret)

\* variant: every stage is keyed by the master secret
NextPasswordMaster == Raw(master_secret)

\* the password of a later stage (line 65)
NextPassword == current_key

\* the first layer of `layers[1..]` (line 63), as a 1-based index
LoopStart == 2

\* variant: the context counts the layers of `layers[1..]` from 1
NextErrorContextFromOne ==
    "Failed to derive key at layer " \o ToString(li - 1)

\* line 66: `i + 2` for the 0-based i of `layers[1..]` is the 1-based
\* position li of the layer in `layers`
NextErrorContext == "Failed to derive key at layer " \o ToString(li)

derive_call(m, L, c) ==
    /\ d_pc = "idle"
    /\ d_pc' = "check"
    /\ master_secret' = m
    /\ layers' = L
    /\ config' = c
    /\ stages' = <<>>
    /\ d_result' = NoResult
    /\ d_freed' = <<>>
    /\ UNCHANGED <<params, current_key, li, d_prev>>

\* variant: the parameters are validated before the layer list
check_layers_late ==
    /\ d_pc = "check"
    /\ IF ~ParamsValid(config)
       THEN /\ d_result' = Err("Failed to create Argon2 parameters")
            /\ d_pc' = "done"
       ELSE IF layers = <<>>
       THEN /\ d_result' = Err("Layers array cannot be empty")
            /\ d_pc' = "done"
       ELSE /\ d_result' = d_result
            /\ d_pc' = "params"
    /\ UNCHANGED <<master_secret, layers, config, params, current_key, li,
                   stages, d_prev, d_freed>>

\* lines 39-41
check_layers ==
    /\ d_pc = "check"
    /\ IF layers = <<>>
       THEN /\ d_result' = Err("Layers array cannot be empty")
            /\ d_pc' = "done"
       ELSE /\ d_result' = d_result
            /\ d_pc' = "params"
    /\ UNCHANGED <<master_secret, layers, config, params, current_key, li,
                   stages, d_prev, d_freed>>

\* variant: a rejected combination falls back to the STANDARD preset
build_params_default ==
    /\ d_pc = "params"
    /\ params' = IF ParamsValid(config) THEN ParamsNew(config)
                 ELSE ParamsNew(STANDARD)
    /\ d_result' = d_result
    /\ d_pc' = "first"
    /\ UNCHANGED <<master_secret, layers, config, current_key, li, stages,
                   d_prev, d_freed>>

\* lines 43-51
build_params ==
    /\ d_pc = "params"
    /\ IF ParamsValid(config)
       THEN /\ params' = ParamsNew(config)
            /\ d_result' = d_result
            /\ d_pc' = "first"
       ELSE /\ params' = params
            /\ d_result' = Err("Failed to create Argon2 parameters")
            /\ d_pc' = "done"
    /\ UNCHANGED <<master_secret, layers, config, current_key, li, stages,
                   d_prev, d_freed>>

\* lines 53-61
derive_first ==
    /\ d_pc = "first"
    /\ \E fail \in BOOLEAN :
         LET r == derive_single(params, FirstPassword, layers[1], ZeroKey,
                                fail)
             salt_drop == Freed("salt", r.salt, ZeroizeBytes(r.salt))
         IN  /\ current_key' = r.out
             /\ stages' = Append(stages, [password |-> r.password,
                                          salt |-> r.salt, ok |-> r.ok,
                                          layer |-> 1])
             /\ IF r.ok
                THEN /\ d_result' = d_result
                     /\ li' = LoopStart
                     /\ d_freed' = Append(d_freed, salt_drop)
                     /\ d_pc' = "loop"
                ELSE /\ d_result' =
                          Err("Failed to derive key from master secret")
                     /\ li' = li
                     /\ d_freed' = d_freed \o
                          <<salt_drop,
                            Freed("current_key", r.out, ZeroizeKey(r.out))>>
                     /\ d_pc' = "done"
    /\ UNCHANGED <<master_secret, layers, config, params, d_prev>>

\* lines 63-68, one iteration
derive_next ==
    /\ d_pc = "loop"
    /\ li <= Len(layers)
    /\ \E fail \in BOOLEAN :
         LET r == derive_single(params, NextPassword, layers[li], ZeroKey,
                                fail)
             salt_drop == Freed("salt", r.salt, ZeroizeBytes(r.salt))
             key_drop == Freed("current_key", current_key,
                               ZeroizeKey(current_key))
         IN  /\ stages' = Append(stages, [password |-> r.password,
                                          salt |-> r.salt, ok |-> r.ok,
                                          layer |-> li])
             /\ IF r.ok
                THEN /\ current_key' = r.out
                     /\ d_result' = d_result
                     /\ li' = li + 1
                     /\ d_freed' = d_freed \o <<salt_drop, key_drop>>
                     /\ d_pc' = "loop"
                ELSE /\ current_key' = current_key
                     /\ d_result' = Err(NextErrorContext)
                     /\ li' = li
                     /\ d_freed' = d_freed \o
                          <<salt_drop,
                            Freed("next_key", r.out, ZeroizeKey(r.out)),
                            key_drop>>
                     /\ d_pc' = "done"
    /\ UNCHANGED <<master_secret, layers, config, params, d_prev>>

\* line 70
derive_return ==
    /\ d_pc = "loop"
    /\ li > Len(layers)
    /\ d_result' = Ok(current_key)
    /\ d_pc' = "done"
    /\ UNCHANGED <<master_secret, layers, config, params, current_key, li,
                   stages, d_prev, d_freed>>

\* the call returns: its locals are dropped, and a call that returned a key
\* is remembered as the previous one
derive_done ==
    /\ d_pc = "done"
    /\ d_prev' = IF d_result.tag = "ok"
                 THEN [called |-> TRUE, master |-> master_secret,
                       layers |-> layers, config |-> config,
                       result |-> d_result]
                 ELSE d_prev
    /\ d_pc' = "idle"
    /\ master_secret' = <<>>
    /\ layers' = <<>>
    /\ config' = STANDARD
    /\ params' = NoParams
    /\ current_key' = ZeroKey
    /\ li' = LoopStart
    /\ stages' = <<>>
    /\ d_result' = NoResult
    /\ d_freed' = <<>>

(***************************************************************************)
(* wordlist.rs: the embedded table.  The asset file is not among the       *)
(* sources; the table is modelled from what test_wordlist_integrity        *)
(* asserts of it: 7776 entries, the four anchors, every entry 3 to 9       *)
(* characters out of a-z and '-'.  The EFF large word list has four        *)
(* entries that contain '-'; their positions here are representative.      *)
(* Every other entry is a distinct three-letter word.                      *)
(***************************************************************************)
WORDLIST_LEN == 7776

HYPHEN == 45

HyphenWords ==
    [i \in {2210, 2720, 6910, 7745} |->
        CASE i = 2210 -> <<100, 114, 111, 112, 45, 100, 111, 119, 110>>
          [] i = 2720 -> <<102, 101, 108, 116, 45, 116, 105, 112>>
          [] i = 6910 -> <<116, 45, 115, 104, 105, 114, 116>>
          [] i = 7745 -> <<121, 111, 45, 121, 111>>]

AnchorWords ==
    [i \in {0, 469, 3695, 7775} |->
        CASE i = 0    -> <<97, 98, 97, 99, 117, 115>>
          [] i = 469  -> <<98, 97, 108, 97, 110, 99, 101>>
          [] i = 3695 -> <<108, 105, 102, 101>>
          [] i = 7775 -> <<122, 111, 111, 109>>]

\* wordlist[i], 0-based as in the code
WordAt(i) ==
    IF i \in DOMAIN AnchorWords THEN AnchorWords[i]
    ELSE IF i \in DOMAIN HyphenWords THEN HyphenWords[i]
    ELSE <<97 + (i \div 676), 97 + ((i \div 26) % 26), 97 + (i % 26)>>

\* membership of a byte string in the table
InWordlist(w) ==
    \/ \E i \in DOMAIN AnchorWords : AnchorWords[i] = w
    \/ \E i \in DOMAIN HyphenWords : HyphenWords[i] = w
    \/ /\ Len(w) = 3
       /\ \A j \in 1..3 : w[j] \in 97..122
       /\ LET i == 676 * (w[1] - 97) + 26 * (w[2] - 97) + (w[3] - 97)
          IN  /\ i < WORDLIST_LEN
              /\ i \notin DOMAIN AnchorWords
              /\ i \notin DOMAIN HyphenWords

\* wordlist_size(): u16
\* ---- the static WORDLIST: OnceLock<Vec<&'static str>> ----
Threads == 1..MaxThreads

\* variant: a caller that finds the lock not yet complete runs the
\* initialiser, also while another caller is running it
OnceMayRunUnlocked == once_state # "complete"

\* Once::call_once_force: a caller runs the initialiser if no caller has
\* run it to the end and no caller is running it (a caller that finds it
\* running blocks until it has ended)
OnceMayRun == once_state \in {"incomplete", "poisoned"}

\* line 27: get_wordlist is entered
get_wordlist_call(t) ==
    /\ t_pc[t] = "idle"
    /\ t_pc' = [t_pc EXCEPT ![t] = "check"]
    /\ UNCHANGED <<asset_len, once_state, once_value, once_stores, t_ret>>

\* get_or_init finds the table stored and returns it
get_wordlist_get(t) ==
    /\ t_pc[t] = "check"
    /\ once_state = "complete"
    /\ t_ret' = [t_ret EXCEPT ![t] = once_value]
    /\ t_pc' = [t_pc EXCEPT ![t] = "returned"]
    /\ UNCHANGED <<asset_len, once_state, once_value, once_stores>>

\* get_or_init starts the initialiser (lines 27-46) in this thread
get_wordlist_begin(t) ==
    /\ t_pc[t] = "check"
    /\ OnceMayRun
    /\ once_state' = "running"
    /\ t_pc' = [t_pc EXCEPT ![t] = "init"]
    /\ UNCHANGED <<asset_len, once_value, once_stores, t_ret>>

\* lines 28-45: the asset is parsed and counted; the table is stored, or
\* assert_eq! panics and leaves the lock empty
get_wordlist_init(t) ==
    /\ t_pc[t] = "init"
    /\ IF asset_len = WORDLIST_LEN
       THEN /\ once_value' = asset_len
            /\ once_stores' = once_stores + 1
            /\ once_state' = "complete"
            /\ t_ret' = [t_ret EXCEPT ![t] = asset_len]
            /\ t_pc' = [t_pc EXCEPT ![t] = "returned"]
       ELSE /\ once_state' = "poisoned"
            /\ t_pc' = [t_pc EXCEPT ![t] = "panicked"]
            /\ UNCHANGED <<once_value, once_stores, t_ret>>
    /\ UNCHANGED asset_len

\* the caller has the table; it may call again later
get_wordlist_done(t) ==
    /\ t_pc[t] = "returned"
    /\ t_pc' = [t_pc EXCEPT ![t] = "idle"]
    /\ UNCHANGED <<asset_len, once_state, once_value, once_stores, t_ret>>

wordlist_size == 7776

(***************************************************************************)
(* generator.rs                                                            *)
(***************************************************************************)
\* variant: the first symbol of the alphabet is a Latin-1 letter
ALPHABET_Latin1 ==
    << 201, 66, 67, 68, 69, 70, 71, 72, 73, 74, 75, 76, 77, 78, 79,
        80, 81, 82, 83, 84, 85, 86, 87, 88, 89, 90, 97, 98, 99, 100,
        101, 102, 103, 104, 105, 106, 107, 108, 109, 110, 111, 112, 113,
        114, 115, 116, 117, 118, 119, 120, 121, 122, 48, 49, 50, 51, 52,
        53, 54, 55, 56, 57, 33, 64, 35, 36, 37, 94, 38, 42, 40, 41, 95,
        43, 45, 61, 91, 93, 123, 125, 124, 59, 58, 44, 46, 60, 62, 63,
        47, 126 >>

ALPHABET ==
    <<  65, 66, 67, 68, 69, 70, 71, 72, 73, 74, 75, 76, 77, 78, 79,
        80, 81, 82, 83, 84, 85, 86, 87, 88, 89, 90, 97, 98, 99, 100,
        101, 102, 103, 104, 105, 106, 107, 108, 109, 110, 111, 112, 113,
        114, 115, 116, 117, 118, 119, 120, 121, 122, 48, 49, 50, 51, 52,
        53, 54, 55, 56, 57, 33, 64, 35, 36, 37, 94, 38, 42, 40, 41, 95,
        43, 45, 61, 91, 93, 123, 125, 124, 59, 58, 44, 46, 60, 62, 63,
        47, 126 >>

WORD_BUFFER_LEN == 512
CHAR_BUFFER_LEN == 1024
KEY_LEN == 32

\* ChaCha20 keystream byte at offset n (0-based) for key k and the all-zero
\* nonce.  Stand-in for the cipher: a fixed function of (k, n) whose first
\* KEY_LEN bytes are the key bytes and whose later bytes are mixed with the
\* offset.
KeystreamByte(k, n) ==
    LET b == n \div KEY_LEN
        j == n % KEY_LEN
    IN  (k[j + 1] * (2 * b + 1) + b * (2 * j + 37) + 11 * b * b) % 256

Bit(x, i) == (x \div (2 ^ i)) % 2

\* bitwise exclusive or of two bytes
Xor8(a, b) ==
      ((Bit(a, 0) + Bit(b, 0)) % 2)
    + ((Bit(a, 1) + Bit(b, 1)) % 2) * 2
    + ((Bit(a, 2) + Bit(b, 2)) % 2) * 4
    + ((Bit(a, 3) + Bit(b, 3)) % 2) * 8
    + ((Bit(a, 4) + Bit(b, 4)) % 2) * 16
    + ((Bit(a, 5) + Bit(b, 5)) % 2) * 32
    + ((Bit(a, 6) + Bit(b, 6)) % 2) * 64
    + ((Bit(a, 7) + Bit(b, 7)) % 2) * 128

\* StreamCipher::apply_keystream: XORs the next Len(buf) keystream bytes
\* into buf; the cipher has produced cpos bytes before
ApplyKeystream(k, cpos, buf) ==
    [j \in 1..Len(buf) |-> Xor8(buf[j], KeystreamByte(k, cpos + j - 1))]

\* variant: the cipher of the previous call is reused
CipherStartStale == cipher_pos

\* ChaCha20::new: a fresh cipher stands at keystream offset 0
CipherStart == 0

\* generate_mnemonic lines 17-18 for a table of wordlist_len entries: the
\* quotient and the product are u32 (the product never exceeds 65536, so
\* u32 does not wrap), the cast is to u16
MaxMultiple(wordlist_len) == 65536 \div wordlist_len
WordRejectionThreshold(wordlist_len) ==
    (MaxMultiple(wordlist_len) * wordlist_len) % 65536

max_multiple == MaxMultiple(wordlist_size)
word_rejection_threshold == WordRejectionThreshold(wordlist_size)

\* generate_password lines 47-48
alphabet_size == Len(ALPHABET)

\* line 48 for an alphabet of size n, in usize
CharRejectionThreshold(n) == 256 - (256 % n)

\* variant: the threshold itself is still accepted
char_rejection_threshold_inclusive == 256 - (256 % alphabet_size) + 1

char_rejection_threshold == CharRejectionThreshold(alphabet_size)

\* variant: the two bytes are read big-endian
U16FromBe(lo, hi) == hi + 256 * lo

\* u16::from_le_bytes([lo, hi])
U16FromLe(lo, hi) == lo + 256 * hi

\* variant: the buffer is refilled while its last two bytes are unread
mnemonic_refill_early == pos + 2 >= Len(buffer)

\* line 25: the working buffer has no two unread bytes left
mnemonic_refill == pos + 1 >= Len(buffer)

\* line 55: the working buffer has no unread byte left
password_refill == pos >= Len(buffer)

\* variant: the loop body runs before the count is looked at
mnemonic_continue_first == draws = <<>> \/ Len(words) < count

\* line 24: the condition of the sampling loop
mnemonic_continue == Len(words) < count

\* variant: the loop runs once more
password_continue_more == Len(password_bytes) <= count

\* line 54: the condition of the sampling loop
password_continue == Len(password_bytes) < count

\* words.join("-"): the words in order with one '-' between neighbours
\* (computed by halves to keep the recursion shallow)
RECURSIVE Join(_)
Join(ws) ==
    IF ws = <<>> THEN <<>>
    ELSE IF Len(ws) = 1 THEN ws[1]
    ELSE LET h == Len(ws) \div 2
         IN  Join(SubSeq(ws, 1, h)) \o <<HYPHEN>>
                \o Join(SubSeq(ws, h + 1, Len(ws)))

\* String::from_utf8 succeeds; exact for bytes below 128, the only bytes
\* a pure-ASCII alphabet can supply (a byte of 128 or more never stands
\* alone in UTF-8)
Utf8Valid(bytes) == \A j \in 1..Len(bytes) : bytes[j] < 128

NoStr == [tag |-> "none", str |-> <<>>]
OkStr(s) == [tag |-> "ok", str |-> s]
ErrStr == [tag |-> "err", str |-> <<>>]

NoGen == [called |-> FALSE, fn |-> "none", key |-> <<>>, count |-> 0,
          result |-> NoStr]

\* ---- inputs ----
\* the key of the unit tests
KeyA == Fill(42, KEY_LEN)
\* a key whose first keystream value selects a table entry with a '-',
\* followed by rejected and accepted values
KeyH == [j \in 1..KEY_LEN |->
            CASE j = 1 -> 65
              [] j = 2 -> 30
              [] j = 3 -> 200
              [] j = 4 -> 250
              [] OTHER -> (61 * j + 13) % 256]
Keys == {KeyA, KeyH}
WordCounts == (0..MaxCount) \cup {RefillWords}
CharCounts == (0..MaxCount) \cup {RefillChars}

\* variant: the cipher is positioned by the requested count before the
\* first chunk is taken
mnemonic_call_seek(k, n) ==
    /\ g_pc = "idle"
    /\ g_fn' = "mnemonic"
    /\ key' = k
    /\ count' = n
    /\ words' = <<>>
    /\ buffer' = ApplyKeystream(k, n, Fill(0, WORD_BUFFER_LEN))
    /\ cipher_pos' = n + WORD_BUFFER_LEN
    /\ pos' = 0
    /\ draws' = <<>>
    /\ g_result' = NoStr
    /\ g_freed' = <<>>
    /\ g_pc' = "loop"
    /\ UNCHANGED <<password_bytes, g_prev>>

\* lines 11-22
mnemonic_call(k, n) ==
    /\ g_pc = "idle"
    /\ g_fn' = "mnemonic"
    /\ key' = k
    /\ count' = n
    /\ words' = <<>>
    /\ buffer' = ApplyKeystream(k, CipherStart, Fill(0, WORD_BUFFER_LEN))
    /\ cipher_pos' = CipherStart + WORD_BUFFER_LEN
    /\ pos' = 0
    /\ draws' = <<>>
    /\ g_result' = NoStr
    /\ g_freed' = <<>>
    /\ g_pc' = "loop"
    /\ UNCHANGED <<password_bytes, g_prev>>

\* lines 24-37, one iteration
mnemonic_step ==
    /\ g_pc = "loop"
    /\ g_fn = "mnemonic"
    /\ mnemonic_continue
    /\ LET refill == mnemonic_refill
           buf == IF refill THEN ApplyKeystream(key, cipher_pos, buffer)
                  ELSE buffer
           p == IF refill THEN 0 ELSE pos
           random_u16 == U16FromLe(buf[p + 1], buf[p + 2])
       IN  /\ buffer' = buf
           /\ cipher_pos' = IF refill THEN cipher_pos + Len(buffer)
                            ELSE cipher_pos
           /\ pos' = p + 2
           /\ draws' = Append(draws, random_u16)
           /\ words' = IF random_u16 < word_rejection_threshold
                       THEN Append(words, WordAt(random_u16 % wordlist_size))
                       ELSE words
    /\ UNCHANGED <<g_pc, g_fn, key, count, password_bytes, g_result, g_prev,
                   g_freed>>

\* line 39, and the drop of the locals as the function returns
mnemonic_return ==
    /\ g_pc = "loop"
    /\ g_fn = "mnemonic"
    /\ ~mnemonic_continue
    /\ g_result' = OkStr(Join(words))
    /\ g_freed' = <<Freed("buffer", buffer, ZeroizeBytes(buffer))>>
    /\ g_pc' = "done"
    /\ UNCHANGED <<g_fn, key, count, cipher_pos, buffer, pos, words,
                   password_bytes, draws, g_prev>>

\* lines 43-52
password_call(k, n) ==
    /\ g_pc = "idle"
    /\ g_fn' = "password"
    /\ key' = k
    /\ count' = n
    /\ password_bytes' = <<>>
    /\ buffer' = ApplyKeystream(k, CipherStart, Fill(0, CHAR_BUFFER_LEN))
    /\ cipher_pos' = CipherStart + CHAR_BUFFER_LEN
    /\ pos' = 0
    /\ draws' = <<>>
    /\ g_result' = NoStr
    /\ g_freed' = <<>>
    /\ g_pc' = "loop"
    /\ UNCHANGED <<words, g_prev>>

\* lines 54-67, one iteration
password_step ==
    /\ g_pc = "loop"
    /\ g_fn = "password"
    /\ password_continue
    /\ LET refill == password_refill
           buf == IF refill THEN ApplyKeystream(key, cipher_pos, buffer)
                  ELSE buffer
           p == IF refill THEN 0 ELSE pos
           random_byte == buf[p + 1]
       IN  /\ buffer' = buf
           /\ cipher_pos' = IF refill THEN cipher_pos + Len(buffer)
                            ELSE cipher_pos
           /\ pos' = p + 1
           /\ draws' = Append(draws, random_byte)
           /\ password_bytes' =
                IF random_byte < char_rejection_threshold
                THEN Append(password_bytes,
                            ALPHABET[(random_byte % alphabet_size) + 1])
                ELSE password_bytes
    /\ UNCHANGED <<g_pc, g_fn, key, count, words, g_result, g_prev, g_freed>>

\* lines 69-71, and the drop of the locals as the function returns
password_return ==
    /\ g_pc = "loop"
    /\ g_fn = "password"
    /\ ~password_continue
    /\ g_result' = IF Utf8Valid(password_bytes) THEN OkStr(password_bytes)
                   ELSE ErrStr
    /\ g_freed' = <<Freed("buffer", buffer, ZeroizeBytes(buffer)),
                    Freed("password_bytes", password_bytes,
                          ZeroizeBytes(password_bytes))>>
    /\ g_pc' = "done"
    /\ UNCHANGED <<g_fn, key, count, cipher_pos, buffer, pos, words,
                   password_bytes, draws, g_prev>>

\* the call returns: the Zeroizing buffers are wiped as they are dropped,
\* the words Vec is freed, and the call is remembered as the previous one
generate_done ==
    /\ g_pc = "done"
    /\ g_prev' = [called |-> TRUE, fn |-> g_fn, key |-> key,
                  count |-> count, result |-> g_result]
    /\ g_pc' = "idle"
    /\ g_fn' = "none"
    /\ key' = <<>>
    /\ count' = 0
    /\ buffer' = ZeroizeBytes(buffer)
    /\ password_bytes' = <<>>
    /\ words' = <<>>
    /\ pos' = 0
    /\ draws' = <<>>
    /\ g_result' = NoStr
    /\ g_freed' = <<>>
    /\ UNCHANGED cipher_pos

(***************************************************************************)
(* The threshold arithmetic of generator.rs as functions of the symbol-set *)
(* size.                                                                   *)
(***************************************************************************)
\* the largest value of `wordlist_len: u16`
U16_MAX == 65535
\* the largest length of an alphabet indexed by one byte
MAX_ALPHABET == 256

ArithIdle ==
    /\ a_pc = "idle"
    /\ a_kind = "none"
    /\ a_size = 1
    /\ a_index = 0
    /\ a_threshold = 0
    /\ a_count = 0

\* generate_mnemonic lines 17-18 with a table of a_size entries
word_threshold ==
    /\ a_pc = "init"
    /\ a_kind = "word"
    /\ a_threshold' = WordRejectionThreshold(a_size)
    /\ a_pc' = "done"
    /\ UNCHANGED <<a_kind, a_size, a_index, a_count>>

\* generate_password lines 47-48 with an alphabet of a_size characters
char_threshold ==
    /\ a_pc = "init"
    /\ a_kind = "char"
    /\ a_threshold' = CharRejectionThreshold(a_size)
    /\ a_pc' = "done"
    /\ UNCHANGED <<a_kind, a_size, a_index, a_count>>

\* the values v of 0..top with v mod size = index
Residues(index, size, top) ==
    {v \in {index + k * size : k \in 0..(top \div size)} : v <= top}

\* lines 33-35: the 16-bit values that are accepted and select a_index
word_preimages ==
    /\ a_pc = "init"
    /\ a_kind = "word"
    /\ a_threshold' = word_rejection_threshold
    /\ a_count' = Cardinality({v \in Residues(a_index, a_size, 65535) :
                                 /\ v < word_rejection_threshold
                                 /\ v % wordlist_size = a_index})
    /\ a_pc' = "done"
    /\ UNCHANGED <<a_kind, a_size, a_index>>

\* lines 63-65: the bytes that are accepted and select a_index
char_preimages ==
    /\ a_pc = "init"
    /\ a_kind = "char"
    /\ a_threshold' = char_rejection_threshold
    /\ a_count' = Cardinality({b \in 0..255 :
                                 /\ b < char_rejection_threshold
                                 /\ b % alphabet_size = a_index})
    /\ a_pc' = "done"
    /\ UNCHANGED <<a_kind, a_size, a_index>>

KdfInit ==
    /\ d_pc = "idle"
    /\ master_secret = <<>>
    /\ layers = <<>>
    /\ config = STANDARD
    /\ params = NoParams
    /\ current_key = ZeroKey
    /\ li = LoopStart
    /\ stages = <<>>
    /\ d_result = NoResult
    /\ d_prev = NoCall
    /\ d_freed = <<>>

GenIdle ==
    /\ g_pc = "idle"
    /\ g_fn = "none"
    /\ key = <<>>
    /\ count = 0
    /\ cipher_pos = 0
    /\ buffer = <<>>
    /\ pos = 0
    /\ words = <<>>
    /\ password_bytes = <<>>
    /\ draws = <<>>
    /\ g_result = NoStr
    /\ g_prev = NoGen
    /\ g_freed = <<>>

\* the static WORDLIST before the first call, in a build whose asset has
\* the entries of the EFF large word list
WlIdle ==
    /\ asset_len = WORDLIST_LEN
    /\ once_state = "incomplete"
    /\ once_value = 0
    /\ once_stores = 0
    /\ t_pc = [t \in Threads |-> "idle"]
    /\ t_ret = [t \in Threads |-> 0]

(***************************************************************************)
(* ui.rs: the prompts.  Text is a sequence of UTF-8 bytes.                 *)
(***************************************************************************)
MAX_MASTER_BYTES == 1048576
MAX_LAYERS_COUNT == 100

\* the ASCII characters with the White_Space property, which str::trim
\* removes (it also removes the non-ASCII ones, which no input here has)
WhiteSpace == {9, 10, 11, 12, 13, 32}

RECURSIVE TrimStart(_)
TrimStart(s) ==
    IF s # <<>> /\ s[1] \in WhiteSpace THEN TrimStart(Tail(s)) ELSE s

RECURSIVE TrimEnd(_)
TrimEnd(s) ==
    IF s # <<>> /\ s[Len(s)] \in WhiteSpace
    THEN TrimEnd(SubSeq(s, 1, Len(s) - 1))
    ELSE s

\* str::trim
Trim(s) == TrimEnd(TrimStart(s))

\* nfc(): canonical composition, for the one decomposed pair the inputs
\* here hold: 'e' followed by U+0301 becomes U+00E9
RECURSIVE Nfc(_)
Nfc(s) ==
    IF s = <<>> THEN <<>>
    ELSE IF Len(s) >= 3 /\ SubSeq(s, 1, 3) = <<101, 204, 129>>
    THEN <<195, 169>> \o Nfc(SubSeq(s, 4, Len(s)))
    ELSE <<s[1]>> \o Nfc(Tail(s))

\* char::is_control for a character of one byte
IsControl(b) == b < 32 \/ b = 127

\* chars().count(): the bytes that are not UTF-8 continuation bytes
CharCount(s) == Cardinality({j \in 1..Len(s) : s[j] \notin 128..191})

\* lines 74-112: with a control character the user is asked whether to
\* go on; anything but "y" or "yes" ends the process
validate_control_characters(s, confirm) ==
    IF (\E j \in 1..Len(s) : IsControl(s[j])) /\ ~confirm
    THEN [tag |-> "exit", text |-> <<>>]
    ELSE [tag |-> "ok", text |-> s]

\* lines 114-118
normalize_and_validate(s, confirm) ==
    validate_control_characters(Nfc(Trim(s)), confirm)

PromptErr(msg) ==
    [tag |-> "err", secret |-> <<>>, byte_length |-> 0, char_count |-> 0,
     err |-> msg]

\* lines 120-147; `read` is the outcome of read_password, `confirm` the
\* answer to the control-character question
prompt_master_secret(read, confirm) ==
    IF ~read.ok THEN PromptErr("Failed to fetch master secret")
    ELSE IF read.text = <<>> THEN PromptErr("Master secret cannot be empty")
    ELSE LET v == normalize_and_validate(read.text, confirm)
         IN  IF v.tag = "exit"
             THEN [tag |-> "exit", secret |-> <<>>, byte_length |-> 0,
                   char_count |-> 0, err |-> ""]
             ELSE IF Len(v.text) > MAX_MASTER_BYTES
             THEN PromptErr("Master secret too long")
             ELSE [tag |-> "ok", secret |-> v.text,
                   byte_length |-> Len(v.text),
                   char_count |-> CharCount(v.text), err |-> ""]

\* what read_password can return: a failure, nothing, white space only,
\* "ms" with and without white space around it, "m<TAB>s", and "cafe"
\* with a combining acute accent
MasterReads ==
    {[ok |-> TRUE, text |-> t] :
        t \in { <<>>, <<32, 32, 32>>, <<9, 9>>, <<109, 115>>,
                <<32, 109, 115, 32>>, <<109, 9, 115>>,
                <<99, 97, 102, 101, 204, 129>> }}
        \cup {[ok |-> FALSE, text |-> <<>>]}

\* ---- prompt_layers ----
\* the j-th line typed: a space, the layer text "a0".."a9", the newline
\* that read_line keeps
LayerText(j) == <<LayerByte, 48 + (j % 10)>>

\* what read_line yields in the loop's pass number j when `entered`
\* non-empty lines are typed before the empty one: the typed line, or
\* the bare newline that ends the entry
LineRead(j, entered) ==
    IF j <= entered THEN <<32>> \o LayerText(j) \o <<10>> ELSE <<10>>

PlNone == [tag |-> "none", err |-> ""]
PlErr(msg) == [tag |-> "err", err |-> msg]

\* lines 150-152
prompt_layers_call(entered) ==
    /\ pl_pc = "idle"
    /\ pl_entered' = entered
    /\ pl_index' = 1
    /\ pl_layers' = <<>>
    /\ pl_layer_infos' = <<>>
    /\ pl_result' = PlNone
    /\ pl_pc' = "loop"

\* lines 154-190, one pass of the loop
prompt_layers_step ==
    /\ pl_pc = "loop"
    /\ IF pl_index > MAX_LAYERS_COUNT
       THEN /\ pl_result' = PlErr("Too many layers (100 maximum allowed)")
            /\ pl_pc' = "done"
            /\ UNCHANGED <<pl_index, pl_layers, pl_layer_infos>>
       ELSE LET input == LineRead(Len(pl_layers) + 1, pl_entered)
                trimmed == Trim(input)
                v == normalize_and_validate(trimmed, FALSE)
            IN  IF trimmed = <<>>
                THEN /\ pl_pc' = "after"
                     /\ UNCHANGED <<pl_index, pl_layers, pl_layer_infos,
                                    pl_result>>
                ELSE IF v.tag = "exit"
                THEN /\ pl_pc' = "exited"
                     /\ UNCHANGED <<pl_index, pl_layers, pl_layer_infos,
                                    pl_result>>
                ELSE /\ pl_layers' = Append(pl_layers, v.text)
                     /\ pl_layer_infos' = Append(pl_layer_infos, pl_index)
                     /\ pl_index' = pl_index + 1
                     /\ UNCHANGED <<pl_pc, pl_result>>
    /\ UNCHANGED pl_entered

\* lines 192-196
prompt_layers_return ==
    /\ pl_pc = "after"
    /\ pl_result' = IF pl_layers = <<>>
                    THEN PlErr("At least one layer is required")
                    ELSE [tag |-> "ok", err |-> ""]
    /\ pl_pc' = "done"
    /\ UNCHANGED <<pl_entered, pl_index, pl_layers, pl_layer_infos>>

\* the caller has the result
prompt_layers_done ==
    /\ pl_pc = "done"
    /\ pl_pc' = "idle"
    /\ pl_entered' = 0
    /\ pl_index' = 1
    /\ pl_layers' = <<>>
    /\ pl_layer_infos' = <<>>
    /\ pl_result' = PlNone

\* prompt_layers is not running
PlIdle ==
    /\ pl_pc = "idle"
    /\ pl_entered = 0
    /\ pl_index = 1
    /\ pl_layers = <<>>
    /\ pl_layer_infos = <<>>
    /\ pl_result = PlNone

NoOverride == [some |-> FALSE, value |-> 0]

\* kdf_config is not computed
CfgIdle ==
    /\ c_pc = "init"
    /\ c_security = "standard"
    /\ c_kdf_memory = NoOverride
    /\ c_kdf_iterations = NoOverride
    /\ c_kdf_parallelism = NoOverride
    /\ c_overflow_checks = FALSE
    /\ c_config = STANDARD

\* no run of main
RunIdle ==
    /\ r_pc = "start"
    /\ r_mode = "mnemonic"
    /\ r_count = 0
    /\ r_config = STANDARD
    /\ r_master = <<>>
    /\ r_layers = <<>>
    /\ r_final_key = <<>>
    /\ r_output = NoStr
    /\ r_shown = NoStr
    /\ r_entered = <<>>
    /\ r_error = ""

InitKdf == KdfInit /\ GenIdle /\ ArithIdle /\ WlIdle /\ RunIdle
        /\ PlIdle /\ CfgIdle

NextKdf ==
    \/ (\E m \in Masters, L \in LayerLists, c \in Configs :
            derive_call(m, L, c)) /\ UNCHANGED outsideKdf
    \/ check_layers /\ UNCHANGED outsideKdf
    \/ build_params /\ UNCHANGED outsideKdf
    \/ derive_first /\ UNCHANGED outsideKdf
    \/ derive_next /\ UNCHANGED outsideKdf
    \/ derive_return /\ UNCHANGED outsideKdf
    \/ derive_done /\ UNCHANGED outsideKdf

SpecKdf == InitKdf /\ [][NextKdf]_vars

InitGen == KdfInit /\ GenIdle /\ ArithIdle /\ WlIdle /\ RunIdle
        /\ PlIdle /\ CfgIdle

NextGen ==
    \/ (\E k \in Keys, n \in WordCounts : mnemonic_call(k, n))
          /\ UNCHANGED outsideGen
    \/ mnemonic_step /\ UNCHANGED outsideGen
    \/ mnemonic_return /\ UNCHANGED outsideGen
    \/ (\E k \in Keys, n \in CharCounts : password_call(k, n))
          /\ UNCHANGED outsideGen
    \/ password_step /\ UNCHANGED outsideGen
    \/ password_return /\ UNCHANGED outsideGen
    \/ generate_done /\ UNCHANGED outsideGen

SpecGen == InitGen /\ [][NextGen]_vars

InitWordlist == KdfInit /\ GenIdle /\ ArithIdle /\ WlIdle /\ RunIdle
        /\ PlIdle /\ CfgIdle

NextWordlist ==
    \/ (\E t \in Threads : get_wordlist_call(t)) /\ UNCHANGED outsideWl
    \/ (\E t \in Threads : get_wordlist_get(t)) /\ UNCHANGED outsideWl
    \/ (\E t \in Threads : get_wordlist_begin(t)) /\ UNCHANGED outsideWl
    \/ (\E t \in Threads : get_wordlist_init(t)) /\ UNCHANGED outsideWl
    \/ (\E t \in Threads : get_wordlist_done(t)) /\ UNCHANGED outsideWl

SpecWordlist == InitWordlist /\ [][NextWordlist]_vars

(***************************************************************************)
(* main.rs: one run of the program, from the prompts to display_output.    *)
(***************************************************************************)
\* the thread that runs main
MainThread == 1

\* the layer lists prompt_layers can return, and the empty list it refuses
RunLayerPool == {Fill(LayerByte, MIN_SALT_LEN - 1),
                 Fill(LayerByte, MIN_SALT_LEN)}
RunLayerLists == UNION {[1..n -> RunLayerPool] : n \in 0..MaxLayers}
\* lines 121-134: the presets, and `--kdf-memory 0`
RunConfigs == {STANDARD, PARANOID,
               [memory_kib |-> 0, iterations |-> 16, parallelism |-> 6]}

\* the OUTPUT_LEN bytes Argon2id writes for a key value: a stand-in, some
\* function of the inputs of the invocation
RECURSIVE KeySeed(_)
KeySeed(k) ==
    IF k[1] = "raw" THEN Len(k[2])
    ELSE (31 * KeySeed(k[3]) + Len(k[4]) + k[4][1] + k[2].iterations) % 256

KeyBytes(k) == [j \in 1..OUTPUT_LEN |-> (KeySeed(k) + 7 * j) % 256]

\* line 111
main_prompt_master_secret ==
    /\ r_pc = "start"
    /\ \E read \in MasterReads, confirm \in BOOLEAN :
         LET r == prompt_master_secret(read, confirm)
         IN  /\ r_entered' = read.text
             /\ r_master' = r.secret
             /\ r_error' = r.err
             /\ r_pc' = CASE r.tag = "ok" -> "layers"
                          [] r.tag = "err" -> "failed"
                          [] OTHER -> "exited"
    /\ UNCHANGED <<r_mode, r_count, r_config, r_layers, r_final_key,
                   r_output, r_shown>>
    /\ UNCHANGED <<kdfVars, genVars, outsideRun, wlVars>>

\* line 113
main_prompt_layers ==
    /\ r_pc = "layers"
    /\ \E L \in RunLayerLists :
         IF L = <<>>
         THEN /\ r_pc' = "failed"
              /\ r_layers' = r_layers
              /\ r_error' = "At least one layer is required"
         ELSE /\ r_pc' = "derive"
              /\ r_layers' = L
              /\ r_error' = r_error
    /\ UNCHANGED <<r_mode, r_count, r_config, r_master, r_final_key, r_output,
                   r_shown, r_entered>>
    /\ UNCHANGED <<kdfVars, genVars, outsideRun, wlVars>>

\* line 159: the closure calls derive_hierarchical
main_derive_call ==
    /\ r_pc = "derive"
    /\ derive_call(r_master, r_layers, r_config)
    /\ r_pc' = "deriving"
    /\ UNCHANGED <<r_mode, r_count, r_config, r_master, r_layers, r_final_key,
                   r_output, r_shown, r_entered, r_error>>
    /\ UNCHANGED <<genVars, outsideRun, wlVars>>

\* variant: a failed derivation is replaced by the default key
main_derive_return_default ==
    /\ r_pc = "deriving"
    /\ d_pc = "done"
    /\ derive_done
    /\ r_final_key' = IF d_result.tag = "ok" THEN KeyBytes(d_result.key)
                      ELSE Fill(0, OUTPUT_LEN)
    /\ r_pc' = "generate"
    /\ UNCHANGED <<r_mode, r_count, r_config, r_master, r_layers, r_output,
                   r_shown, r_entered, r_error>>
    /\ UNCHANGED <<genVars, outsideRun, wlVars>>

\* line 159: derive_hierarchical returns; `?` leaves the closure on Err
main_derive_return ==
    /\ r_pc = "deriving"
    /\ d_pc = "done"
    /\ derive_done
    /\ IF d_result.tag = "ok"
       THEN /\ r_final_key' = KeyBytes(d_result.key)
            /\ r_error' = r_error
            /\ r_pc' = "generate"
       ELSE /\ r_final_key' = r_final_key
            /\ r_error' = d_result.err
            /\ r_pc' = "failed"
    /\ UNCHANGED <<r_mode, r_count, r_config, r_master, r_layers, r_output,
                   r_shown, r_entered>>
    /\ UNCHANGED <<genVars, outsideRun, wlVars>>

\* line 162 and generator.rs line 11: generate_mnemonic starts with
\* get_wordlist
main_generate_mnemonic ==
    /\ r_pc = "generate"
    /\ r_mode = "mnemonic"
    /\ get_wordlist_call(MainThread)
    /\ r_pc' = "wordlist"
    /\ UNCHANGED <<r_mode, r_count, r_config, r_master, r_layers, r_final_key,
                   r_output, r_shown, r_entered, r_error>>
    /\ UNCHANGED <<kdfVars, genVars, outsideRun>>

\* generator.rs lines 12-22, once get_wordlist has returned
main_mnemonic_call ==
    /\ r_pc = "wordlist"
    /\ get_wordlist_done(MainThread)
    /\ mnemonic_call(r_final_key, r_count)
    /\ r_pc' = "generating"
    /\ UNCHANGED <<r_mode, r_count, r_config, r_master, r_layers, r_final_key,
                   r_output, r_shown, r_entered, r_error>>
    /\ UNCHANGED <<kdfVars, outsideRun>>

\* the panic of assert_eq! inside get_wordlist unwinds through main: the
\* closure's final_key is dropped, nothing is displayed
main_wordlist_panic ==
    /\ r_pc = "wordlist"
    /\ t_pc[MainThread] = "panicked"
    /\ r_pc' = "panicked"
    /\ r_final_key' = ZeroizeBytes(r_final_key)
    /\ UNCHANGED <<r_mode, r_count, r_config, r_master, r_layers, r_output,
                   r_shown, r_entered, r_error>>
    /\ UNCHANGED <<kdfVars, genVars, outsideRun, wlVars>>

\* line 165
main_generate_password ==
    /\ r_pc = "generate"
    /\ r_mode = "password"
    /\ password_call(r_final_key, r_count)
    /\ r_pc' = "generating"
    /\ UNCHANGED <<r_mode, r_count, r_config, r_master, r_layers, r_final_key,
                   r_output, r_shown, r_entered, r_error>>
    /\ UNCHANGED <<kdfVars, outsideRun, wlVars>>

\* lines 162-168: generate_* returns, the closure ends and drops final_key
main_generate_return ==
    /\ r_pc = "generating"
    /\ g_pc = "done"
    /\ generate_done
    /\ r_final_key' = ZeroizeBytes(r_final_key)
    /\ IF g_result.tag = "ok"
       THEN /\ r_output' = g_result
            /\ r_error' = r_error
            /\ r_pc' = "display"
       ELSE /\ r_output' = r_output
            /\ r_error' = "invalid utf-8 sequence"
            /\ r_pc' = "failed"
    /\ UNCHANGED <<r_mode, r_count, r_config, r_master, r_layers, r_shown,
                   r_entered>>
    /\ UNCHANGED <<kdfVars, outsideRun, wlVars>>

\* lines 176-183
main_display_output ==
    /\ r_pc = "display"
    /\ r_shown' = r_output
    /\ r_pc' = "exit"
    /\ UNCHANGED <<r_mode, r_count, r_config, r_master, r_layers, r_final_key,
                   r_output, r_entered, r_error>>
    /\ UNCHANGED <<kdfVars, genVars, outsideRun, wlVars>>

\* line 97: the command line is parsed
RunStart ==
    /\ r_pc = "start"
    /\ r_mode \in {"mnemonic", "password"}
    /\ r_count \in 0..MaxCount
    /\ r_config \in RunConfigs
    /\ r_master = <<>>
    /\ r_layers = <<>>
    /\ r_final_key = <<>>
    /\ r_output = NoStr
    /\ r_shown = NoStr
    /\ r_entered = <<>>
    /\ r_error = ""

InitRun ==
    KdfInit /\ GenIdle /\ ArithIdle /\ WlIdle /\ RunStart /\ PlIdle /\ CfgIdle

NextRun ==
    \/ main_prompt_master_secret
    \/ main_prompt_layers
    \/ main_derive_call
    \/ check_layers /\ UNCHANGED outsideKdf
    \/ build_params /\ UNCHANGED outsideKdf
    \/ derive_first /\ UNCHANGED outsideKdf
    \/ derive_next /\ UNCHANGED outsideKdf
    \/ derive_return /\ UNCHANGED outsideKdf
    \/ main_derive_return
    \/ main_generate_mnemonic
    \/ get_wordlist_begin(MainThread) /\ UNCHANGED outsideWl
    \/ get_wordlist_init(MainThread) /\ UNCHANGED outsideWl
    \/ main_mnemonic_call
    \/ mnemonic_step /\ UNCHANGED outsideGen
    \/ mnemonic_return /\ UNCHANGED outsideGen
    \/ main_generate_password
    \/ password_step /\ UNCHANGED outsideGen
    \/ password_return /\ UNCHANGED outsideGen
    \/ main_generate_return
    \/ main_display_output

SpecRun == InitRun /\ [][NextRun]_vars

\* a build whose embedded asset parses to the 7776 entries, or to one less
InitStartup ==
    /\ KdfInit
    /\ GenIdle
    /\ ArithIdle
    /\ asset_len \in {WORDLIST_LEN, WORDLIST_LEN - 1}
    /\ once_state = "incomplete"
    /\ once_value = 0
    /\ once_stores = 0
    /\ t_pc = [t \in Threads |-> "idle"]
    /\ t_ret = [t \in Threads |-> 0]
    /\ RunStart
    /\ PlIdle
    /\ CfgIdle

NextStartup ==
    \/ NextRun
    \/ main_wordlist_panic

SpecStartup == InitStartup /\ [][NextStartup]_vars

(***************************************************************************)
(* main.rs lines 121-134: kdf_config from the command line.                *)
(***************************************************************************)
\* 2^22: the least u32 whose product with 1024 does not fit in a u32
U32_OVER_1024 == 4194304

\* `mem * 1024` in u32 when the product wraps: (mem * 1024) mod 2^32,
\* computed as (mem mod 2^22) * 1024
WrappingMul1024(mem) == (mem % U32_OVER_1024) * 1024

Preset(security) == IF security = "standard" THEN STANDARD ELSE PARANOID

\* lines 121-134.  An overflowing `mem * 1024` panics in a build with
\* overflow checks and wraps in a build without.
main_kdf_config ==
    /\ c_pc = "init"
    /\ IF /\ c_kdf_memory.some
          /\ c_kdf_memory.value >= U32_OVER_1024
          /\ c_overflow_checks
       THEN /\ c_pc' = "panicked"
            /\ c_config' = c_config
       ELSE /\ c_pc' = "done"
            /\ c_config' =
                 [memory_kib |->
                      IF c_kdf_memory.some
                      THEN WrappingMul1024(c_kdf_memory.value)
                      ELSE Preset(c_security).memory_kib,
                  iterations |->
                      IF c_kdf_iterations.some
                      THEN c_kdf_iterations.value
                      ELSE Preset(c_security).iterations,
                  parallelism |->
                      IF c_kdf_parallelism.some
                      THEN c_kdf_parallelism.value
                      ELSE Preset(c_security).parallelism]
    /\ UNCHANGED <<c_security, c_kdf_memory, c_kdf_iterations,
                   c_kdf_parallelism, c_overflow_checks>>

Some(v) == [some |-> TRUE, value |-> v]

\* --kdf-memory values: small ones and ones from 2^22 upwards
MemoryValues ==
    (0..MaxMemoryMib) \cup (U32_OVER_1024..(U32_OVER_1024 + MaxMemoryMib))

\* line 97: the command line is parsed
InitConfig ==
    /\ KdfInit
    /\ GenIdle
    /\ ArithIdle
    /\ WlIdle
    /\ RunIdle
    /\ PlIdle
    /\ c_pc = "init"
    /\ c_security \in {"standard", "paranoid"}
    /\ c_kdf_memory \in {NoOverride} \cup {Some(v) : v \in MemoryValues}
    /\ c_kdf_iterations \in {NoOverride, Some(1)}
    /\ c_kdf_parallelism \in {NoOverride, Some(1)}
    /\ c_overflow_checks \in BOOLEAN
    /\ c_config = Preset(c_security)

NextConfig == main_kdf_config /\ UNCHANGED outsideCfg

SpecConfig == InitConfig /\ [][NextConfig]_vars

InitLayers ==
    KdfInit /\ GenIdle /\ ArithIdle /\ WlIdle /\ RunIdle /\ PlIdle /\ CfgIdle

NextLayers ==
    \/ (\E entered \in 0..MaxEntered : prompt_layers_call(entered))
          /\ UNCHANGED outsidePl
    \/ prompt_layers_step /\ UNCHANGED outsidePl
    \/ prompt_layers_return /\ UNCHANGED outsidePl
    \/ prompt_layers_done /\ UNCHANGED outsidePl

SpecLayers == InitLayers /\ [][NextLayers]_vars

\* layers for the sensitivity check: a layer shorter than MIN_SALT_LEN, the
\* 64-byte layer whose bytes are that layer's digest, and a long layer
\* (the stand-in digest is not UTF-8 text as a layer `String` must be; a
\* real layer of this kind is a short string whose Blake2b-512 digest
\* happens to be valid UTF-8)
ShortLayer == Fill(LayerByte, MIN_SALT_LEN - 1)
DigestLayer == Blake2b512(ShortLayer)
SensLayerPool == {ShortLayer, DigestLayer, Fill(LayerByte, MIN_SALT_LEN)}
SensLayerLists == UNION {[1..n -> SensLayerPool] : n \in 0..MaxLayers}

InitSens == KdfInit /\ GenIdle /\ ArithIdle /\ WlIdle /\ RunIdle
        /\ PlIdle /\ CfgIdle

NextSens ==
    \/ (\E m \in Masters, L \in SensLayerLists, c \in Configs :
            derive_call(m, L, c)) /\ UNCHANGED outsideKdf
    \/ check_layers /\ UNCHANGED outsideKdf
    \/ build_params /\ UNCHANGED outsideKdf
    \/ derive_first /\ UNCHANGED outsideKdf
    \/ derive_next /\ UNCHANGED outsideKdf
    \/ derive_return /\ UNCHANGED outsideKdf
    \/ derive_done /\ UNCHANGED outsideKdf

SpecSens == InitSens /\ [][NextSens]_vars

\* every symbol-set size the types of the code admit
InitThreshold ==
    /\ KdfInit
    /\ GenIdle
    /\ WlIdle
    /\ RunIdle
    /\ PlIdle
    /\ CfgIdle
    /\ a_pc = "init"
    /\ \/ a_kind = "word" /\ a_size \in 1..U16_MAX
       \/ a_kind = "char" /\ a_size \in 1..MAX_ALPHABET
    /\ a_index = 0
    /\ a_threshold = 0
    /\ a_count = 0

NextThreshold ==
    \/ word_threshold /\ UNCHANGED outsideArith
    \/ char_threshold /\ UNCHANGED outsideArith

SpecThreshold == InitThreshold /\ [][NextThreshold]_vars

\* every symbol index of the two symbol sets of the program
InitBias ==
    /\ KdfInit
    /\ GenIdle
    /\ WlIdle
    /\ RunIdle
    /\ PlIdle
    /\ CfgIdle
    /\ a_pc = "init"
    /\ \/ a_kind = "word" /\ a_size = wordlist_size
       \/ a_kind = "char" /\ a_size = alphabet_size
    /\ a_index \in 0..(a_size - 1)
    /\ a_threshold = 0
    /\ a_count = 0

NextBias ==
    \/ word_preimages /\ UNCHANGED outsideArith
    \/ char_preimages /\ UNCHANGED outsideArith

SpecBias == InitBias /\ [][NextBias]_vars

(***************************************************************************)
(* Properties of derive_hierarchical, checked under SpecKdf.               *)
(***************************************************************************)
\* the call in progress has the inputs of the previous call that returned a
\* key
SameDeriveInputs ==
    /\ d_prev.called
    /\ d_prev.master = master_secret
    /\ d_prev.layers = layers
    /\ d_prev.config = config

\* C1: a call of derive_hierarchical that returns a key returns the very
\* 32-byte key that the previous call with the same master secret, layers
\* and config returned.
C1_DeriveDeterministic ==
    (d_pc = "done" /\ d_result.tag = "ok" /\ SameDeriveInputs)
        => /\ d_result.key = d_prev.result.key
           /\ KeyLen(d_result.key) = OUTPUT_LEN

C1_Witness ==
    /\ d_pc = "done"
    /\ d_result.tag = "ok"
    /\ SameDeriveInputs
    /\ Len(layers) >= 2
    /\ d_result.key = d_prev.result.key

\* C3: with an empty layer list the call ends in the error "Layers array
\* cannot be empty" whatever the master secret and the config are, no
\* parameters are built, no KDF stage runs and no key is returned.
C3_EmptyLayersRejected ==
    (d_pc # "idle" /\ layers = <<>>)
        => /\ d_pc \in {"check", "done"}
           /\ params = NoParams
           /\ stages = <<>>
           /\ d_result.tag # "ok"
           /\ d_pc = "done"
                => d_result = Err("Layers array cannot be empty")

C3_Witness ==
    /\ d_pc = "done"
    /\ layers = <<>>
    /\ ~ParamsValid(config)
    /\ master_secret # <<>>
    /\ d_result = Err("Layers array cannot be empty")

\* one KDF stage applied to a password and a layer
Stage(p, password, layer) ==
    <<"argon2id", p, password,
      IF Len(layer) >= MIN_SALT_LEN THEN layer ELSE Blake2b512(layer)>>

\* the key of the chain over the layer list L, by recursion on its last layer
RECURSIVE Chain(_, _, _)
Chain(p, m, L) ==
    IF Len(L) = 1 THEN Stage(p, <<"raw", m>>, L[1])
    ELSE Stage(p, Chain(p, m, SubSeq(L, 1, Len(L) - 1)), L[Len(L)])

\* C4: a call that returns a key for n layers has run exactly n stages in
\* layer order, stage i salted by the normalised layer i; stage 1 is keyed
\* by the master secret, stage i > 1 by the output of stage i-1, the
\* master secret keys no later stage, and the key
\* returned is the output of stage n: the chain over the first n-1 layers
\* followed by one stage on the last layer.
C4_StageChain ==
    (d_pc = "done" /\ d_result.tag = "ok")
        => /\ Len(stages) = Len(layers)
           /\ \A i \in 1..Len(stages) :
                /\ stages[i].ok
                /\ stages[i].layer = i
                /\ stages[i].salt =
                     IF Len(layers[i]) >= MIN_SALT_LEN THEN layers[i]
                     ELSE Blake2b512(layers[i])
                /\ stages[i].password =
                     IF i = 1 THEN <<"raw", master_secret>>
                     ELSE Chain(params, master_secret, SubSeq(layers, 1, i - 1))
                /\ i > 1 => stages[i].password # <<"raw", master_secret>>
           /\ d_result.key = Chain(params, master_secret, layers)
           /\ Len(layers) > 1
                => d_result.key =
                     Stage(params,
                           Chain(params, master_secret,
                                 SubSeq(layers, 1, Len(layers) - 1)),
                           layers[Len(layers)])

C4_Witness ==
    /\ d_pc = "done"
    /\ d_result.tag = "ok"
    /\ Len(layers) >= 2
    /\ layers[1] # layers[2]
    /\ Len(stages) = Len(layers)

\* C5: the salt of every stage is the layer's bytes unchanged when the
\* layer has at least 16 bytes and the 64-byte Blake2b-512 digest of the
\* layer otherwise (the empty layer included); every salt has at least 16
\* bytes.
C5_SaltNormalised ==
    \A i \in 1..Len(stages) :
        LET layer == layers[stages[i].layer]
            salt == stages[i].salt
        IN  /\ Len(layer) >= 16 => salt = layer
            /\ Len(layer) < 16 => salt = Blake2b512(layer) /\ Len(salt) = 64
            /\ Len(salt) >= 16

C5_Witness ==
    /\ Len(stages) = 2
    /\ Len(layers[1]) = 0
    /\ stages[1].salt = Blake2b512(<<>>)
    /\ Len(layers[2]) = 16
    /\ stages[2].salt = layers[2]

(***************************************************************************)
(* Properties of generate_mnemonic and generate_password, checked under    *)
(* SpecGen.                                                                *)
(***************************************************************************)
SameGenInputs ==
    /\ g_prev.called
    /\ g_prev.fn = g_fn
    /\ g_prev.key = key
    /\ g_prev.count = count

\* C2: a call of generate_mnemonic or generate_password returns the very
\* string that the previous call of the same function with the same key and
\* count returned, also when the working buffer was refilled on the way.
C2_GenerateDeterministic ==
    (g_pc = "done" /\ SameGenInputs) => g_result = g_prev.result

C2_Witness ==
    /\ g_pc = "done"
    /\ SameGenInputs
    /\ g_fn = "mnemonic"
    /\ cipher_pos > WORD_BUFFER_LEN
    /\ g_result.tag = "ok"
    /\ g_result = g_prev.result

\* the words selected by a sequence of 16-bit values: values below 62208
\* select the entry at (value mod 7776), the others select nothing
WordsOf(vs) ==
    LET accepted == SelectSeq(vs, LAMBDA v : v < 62208)
    IN  [i \in 1..Len(accepted) |-> WordAt(accepted[i] % 7776)]

\* C6: in generate_mnemonic every value is read from two adjacent buffer
\* bytes, low byte first, and the cursor then stands two bytes further,
\* whether the value is accepted or not; the threshold is floor(65536 / 7776) * 7776 =
\* 62208; the i-th word collected is the table entry at (v mod 7776) for
\* the i-th value v below the threshold, and a value at or above the
\* threshold adds no word.
C6_WordSampling ==
    (g_fn = "mnemonic" /\ g_pc \in {"loop", "done"})
        => /\ word_rejection_threshold = 62208
           /\ word_rejection_threshold = (65536 \div 7776) * 7776
           /\ pos % 2 = 0
           /\ pos = 2 * Len(draws) - (cipher_pos - 512)
           /\ draws # <<>>
                => draws[Len(draws)] = buffer[pos - 1] + 256 * buffer[pos]
           /\ words = WordsOf(draws)

C6_Witness ==
    /\ g_fn = "mnemonic"
    /\ g_pc = "done"
    /\ Len(words) >= 2
    /\ \E i \in 1..Len(draws) : draws[i] >= 62208
    /\ \E i \in 1..Len(draws) : draws[i] \in 7776..62207

\* the characters selected by a sequence of bytes: bytes below 180 select
\* the alphabet character at (byte mod 90), the others select nothing
CharsOf(bs) ==
    LET accepted == SelectSeq(bs, LAMBDA b : b < 180)
    IN  [i \in 1..Len(accepted) |-> ALPHABET[(accepted[i] % 90) + 1]]

\* C7: in generate_password the threshold 256 - (256 mod 90) is 180; each
\* iteration reads the one byte at the cursor and moves the cursor by one;
\* the i-th character collected is ALPHABET[b mod 90] for the i-th byte b below
\* 180, a byte of 180 or more adds no character, and every byte below 180
\* maps to an index in 0..89.
C7_CharSampling ==
    (g_fn = "password" /\ g_pc \in {"loop", "done"})
        => /\ alphabet_size = 90
           /\ char_rejection_threshold = 180
           /\ pos = Len(draws) - (cipher_pos - 1024)
           /\ draws # <<>> => draws[Len(draws)] = buffer[pos]
           /\ password_bytes = CharsOf(draws)
           /\ \A b \in 0..255 :
                b < char_rejection_threshold
                    => (b % alphabet_size) + 1 \in DOMAIN ALPHABET

C7_Witness ==
    /\ g_fn = "password"
    /\ g_pc = "done"
    /\ Len(password_bytes) >= 2
    /\ \E i \in 1..Len(draws) : draws[i] >= 180
    /\ \E i \in 1..Len(draws) : draws[i] \in 90..179

\* the positions of '-' in a string
HyphenPositions(s) == {j \in 1..Len(s) : s[j] = HYPHEN}

\* the pieces that splitting a string on '-' yields
SplitPieces(s) ==
    LET cuts == HyphenPositions(s) \cup {0, Len(s) + 1}
    IN  {SubSeq(s, a + 1, b - 1) :
            <<a, b>> \in {c \in cuts \X cuts :
                            /\ c[1] < c[2]
                            /\ \A x \in cuts : ~(c[1] < x /\ x < c[2])}}

\* C8: for N >= 1 the string generate_mnemonic returns splits on '-' into
\* exactly N pieces, every piece is an entry of the word table, and the
\* string neither starts nor ends with '-'.
C8_SplitsIntoNWords ==
    (g_pc = "done" /\ g_fn = "mnemonic" /\ count >= 1)
        => /\ g_result.tag = "ok"
           /\ Cardinality(HyphenPositions(g_result.str)) + 1 = count
           /\ \A piece \in SplitPieces(g_result.str) : InWordlist(piece)
           /\ g_result.str[1] # HYPHEN
           /\ g_result.str[Len(g_result.str)] # HYPHEN

\* C9: generate_password returns a string of exactly N bytes, each a
\* character of the 90-character alphabet.
C9_PasswordLength ==
    (g_pc = "done" /\ g_fn = "password")
        => /\ g_result.tag = "ok"
           /\ Len(g_result.str) = count
           /\ \A j \in 1..Len(g_result.str) :
                \E a \in 1..90 : ALPHABET[a] = g_result.str[j]

C9_Witness ==
    /\ g_pc = "done"
    /\ g_fn = "password"
    /\ count = RefillChars
    /\ cipher_pos > CHAR_BUFFER_LEN
    /\ Len(g_result.str) = count

\* C10: with a count of 0 both functions return Ok with the empty string
\* and the sampling loop is not entered (no value is read).
C10_ZeroCount ==
    (g_pc = "done" /\ count = 0)
        => /\ g_result = [tag |-> "ok", str |-> <<>>]
           /\ draws = <<>>
           /\ pos = 0

C10_Witness ==
    /\ g_pc = "done"
    /\ g_fn = "password"
    /\ count = 0
    /\ g_result = [tag |-> "ok", str |-> <<>>]
    /\ g_prev.called
    /\ g_prev.fn = "mnemonic"
    /\ g_prev.count = 0
    /\ g_prev.result = [tag |-> "ok", str |-> <<>>]

C12_NoModuloBias ==
    a_pc = "done"
        => /\ a_kind = "word" => a_size = 7776 /\ a_count = 8
           /\ a_kind = "char" => a_size = 90 /\ a_count = 2

C12_Witness ==
    /\ a_pc = "done"
    /\ a_kind = "word"
    /\ a_index = 7775
    /\ a_threshold = 62208
    /\ a_count = 8

(***************************************************************************)
(* Properties of the working buffer, checked under SpecGen.                *)
(***************************************************************************)
\* C13: while a generator call runs, the working buffer holds exactly the
\* latest keystream chunk of (key, zero nonce): the bytes the cipher
\* produced last, in order, and nothing combined with earlier contents.
C13_BufferIsKeystream ==
    (g_fn # "none" /\ g_pc \in {"loop", "done"})
        => \A j \in 1..Len(buffer) :
              buffer[j] = KeystreamByte(key, cipher_pos - Len(buffer) + j - 1)

(***************************************************************************)
(* Sensitivity to the layers, checked under SpecSens.                      *)
(***************************************************************************)
\* C14: for the same master secret and config, two layer lists that differ
\* (in a layer, or in the order of the layers) give different final keys.
C14_LayerSensitive ==
    ( /\ d_pc = "done"
      /\ d_result.tag = "ok"
      /\ d_prev.called
      /\ d_prev.master = master_secret
      /\ d_prev.config = config
      /\ d_prev.layers # layers )
        => d_result.key # d_prev.result.key

(***************************************************************************)
(* Error paths of derive_hierarchical, checked under SpecKdf.              *)
(***************************************************************************)
\* the call has ended because the stage of its latest layer failed
StageFailed ==
    /\ d_pc = "done"
    /\ stages # <<>>
    /\ ~stages[Len(stages)].ok

ConfigRejected ==
    \/ config.parallelism < 1
    \/ config.iterations < 1
    \/ config.memory_kib < 8 * config.parallelism

\* C16: a call with at least one layer and a config the parameter
\* constructor rejects ends with "Failed to create Argon2 parameters",
\* without a key and without having run any KDF stage.
C16_InvalidParams ==
    (d_pc \in {"first", "loop", "done"} /\ layers # <<>> /\ ConfigRejected)
        => /\ d_pc = "done"
           /\ d_result.tag = "err"
           /\ d_result.err = "Failed to create Argon2 parameters"
           /\ d_result.key = ZeroKey
           /\ stages = <<>>

C16_Witness ==
    /\ d_pc = "done"
    /\ Len(layers) = 2
    /\ ConfigRejected
    /\ d_result.err = "Failed to create Argon2 parameters"
    /\ stages = <<>>

(***************************************************************************)
(* The shared word table, checked under SpecWordlist.                      *)
(***************************************************************************)
\* C19: under every interleaving of get_wordlist calls the table is stored
\* at most once, and exactly once by the time a call has returned; every
\* call returns the table of 7776 entries that was stored, and
\* wordlist_size() is the length of that table.
C19_InitialisedOnce ==
    /\ once_stores <= 1
    /\ once_state = "complete" => once_stores = 1 /\ once_value = wordlist_size
    /\ \A t \in Threads :
          (t_pc[t] = "returned" \/ t_ret[t] # 0)
              => /\ once_stores = 1
                 /\ t_ret[t] = 7776
                 /\ t_ret[t] = once_value
                 /\ wordlist_size = t_ret[t]

C19_Witness ==
    /\ once_stores = 1
    /\ \A t \in Threads : t_pc[t] = "returned" /\ t_ret[t] = 7776
    /\ \E t \in Threads : t_pc[t] = "returned"

(***************************************************************************)
(* Properties of one run of the program, checked under SpecRun and         *)
(* SpecStartup.                                                            *)
(***************************************************************************)
\* every buffer the derive_hierarchical call dropped was left all zero
DerivedBuffersWiped ==
    \A i \in DOMAIN d_freed :
        IF d_freed[i].name = "salt"
        THEN d_freed[i].left = Fill(0, Len(d_freed[i].held))
        ELSE d_freed[i].left = Raw(Fill(0, OUTPUT_LEN))

\* the salt of every stage is among the dropped buffers
SaltsDropped ==
    \A j \in DOMAIN stages :
        \E i \in DOMAIN d_freed :
            /\ d_freed[i].name = "salt"
            /\ d_freed[i].held = stages[j].salt

\* the key of every successful stage, other than the key the call
\* returns, is among the dropped buffers
IntermediateKeysDropped ==
    \A j \in DOMAIN stages :
        (stages[j].ok /\ ~(d_result.tag = "ok" /\ j = Len(stages)))
            => \E i \in DOMAIN d_freed :
                  /\ d_freed[i].name # "salt"
                  /\ d_freed[i].held =
                        <<"argon2id", params, stages[j].password,
                          stages[j].salt>>

\* the buffer named `name` is among the buffers the generate_* call
\* dropped, held `held` and was left all zero
GenBufferWiped(name, held) ==
    \E i \in DOMAIN g_freed :
        /\ g_freed[i].name = name
        /\ g_freed[i].held = held
        /\ g_freed[i].left = Fill(0, Len(held))

C17_WitnessKdf ==
    /\ d_pc = "done"
    /\ d_result.tag = "err"
    /\ Len(stages) = 2
    /\ IntermediateKeysDropped
    /\ Len(d_freed) = 4

\* C18: a generate_* call that has returned has returned either the
\* complete string of exactly `count` sampled symbols or an error without
\* a string; and the run has displayed an output only if
\* derive_hierarchical returned a key and the generate_* call returned
\* its complete string, which is what is displayed.
C18_NoPartialOutput ==
    /\ g_pc = "done"
          => \/ /\ g_result.tag = "ok"
                /\ g_fn = "mnemonic"
                /\ Len(words) = count
                /\ g_result.str = Join(words)
             \/ /\ g_result.tag = "ok"
                /\ g_fn = "password"
                /\ Len(g_result.str) = count
                /\ g_result.str = password_bytes
             \/ /\ g_result.tag = "err"
                /\ g_result.str = <<>>
    /\ g_pc \in {"idle", "loop"} => g_result = NoStr
    /\ r_shown # NoStr
          => /\ d_prev.called
             /\ d_prev.result.tag = "ok"
             /\ d_prev.master = r_master
             /\ d_prev.layers = r_layers
             /\ g_prev.called
             /\ g_prev.result.tag = "ok"
             /\ g_prev.count = r_count
             /\ g_prev.key = [j \in 1..32 |->
                                (KeySeed(d_prev.result.key) + 7 * j) % 256]
             /\ r_shown = g_prev.result

C18_Witness ==
    /\ r_pc = "exit"
    /\ r_mode = "mnemonic"
    /\ r_count = 2
    /\ r_shown.tag = "ok"
    /\ Len(r_shown.str) > 2
    /\ Len(r_layers) = 2

\* C20: when the validation of the embedded table fails, no secret has
\* been collected yet and neither derive_hierarchical nor a generate_*
\* call has started: the failure is not detected inside a generation
\* call.
C20_FatalAtStartup ==
    (\E t \in Threads : t_pc[t] = "panicked")
        => /\ r_master = <<>>
           /\ r_layers = <<>>
           /\ ~d_prev.called
           /\ r_pc \notin {"wordlist", "generating"}

(***************************************************************************)
(* Further properties of the sampling loops, checked under SpecGen.        *)
(***************************************************************************)
\* bytes one value of the running function is read from
DrawWidth == IF g_fn = "mnemonic" THEN 2 ELSE 1

\* C21: within a generate_* call the read cursor stays inside the working
\* buffer, every read took place at indices inside the buffer, the buffer
\* is refilled only once all of it has been read, and the cursor's
\* offset in the stream is exactly the number of bytes read so far: no
\* byte is skipped at a buffer boundary and none is read twice.
C21_StreamMonotone ==
    (g_fn # "none" /\ g_pc \in {"loop", "done"})
        => /\ Len(buffer) = IF g_fn = "mnemonic" THEN 512 ELSE 1024
           /\ pos >= 0
           /\ pos <= Len(buffer)
           /\ pos % DrawWidth = 0
           /\ draws # <<>> => pos >= DrawWidth
           /\ cipher_pos % Len(buffer) = 0
           /\ cipher_pos - Len(buffer) + pos = DrawWidth * Len(draws)

C21_Witness ==
    /\ g_fn = "mnemonic"
    /\ g_pc = "loop"
    /\ cipher_pos = 1024
    /\ pos = 2
    /\ Len(draws) = 257

\* C22: generate_password and generate_mnemonic never return Err: every
\* byte accumulated for a password is a printable ASCII member of the
\* alphabet, so the UTF-8 assembly succeeds, and every word index is
\* within the table of 7776 entries.
C22_AssemblyNeverFails ==
    /\ g_pc = "done" => g_result.tag = "ok"
    /\ g_fn = "password"
          => \A j \in 1..Len(password_bytes) :
                /\ password_bytes[j] \in 33..126
                /\ \E i \in 1..90 : ALPHABET[i] = password_bytes[j]
    /\ g_fn = "mnemonic"
          => \A j \in 1..Len(draws) :
                draws[j] < 62208 => (draws[j] % 7776) \in 0..(WORDLIST_LEN - 1)

C22_Witness ==
    /\ g_pc = "done"
    /\ g_fn = "password"
    /\ count = RefillChars
    /\ g_result.tag = "ok"
    /\ Len(g_result.str) = RefillChars

\* s is an initial segment of t
IsPrefix(s, t) == Len(s) <= Len(t) /\ s = SubSeq(t, 1, Len(s))

\* C25: for the same key, the result for a smaller count is an initial
\* part of the result for a larger one: generate_password(key, N) is a
\* prefix of generate_password(key, M), and generate_mnemonic(key, N) is
\* the first N words of generate_mnemonic(key, M), for N <= M.
C25_PrefixConsistent ==
    ( /\ g_pc = "done"
      /\ g_prev.called
      /\ g_prev.fn = g_fn
      /\ g_prev.key = key
      /\ g_prev.count <= count )
        => /\ g_prev.result.tag = "ok"
           /\ g_result.tag = "ok"
           /\ IsPrefix(g_prev.result.str, g_result.str)
           /\ g_fn = "password"
                 => g_prev.result.str = SubSeq(password_bytes, 1, g_prev.count)
           /\ g_fn = "mnemonic"
                 => g_prev.result.str = Join(SubSeq(words, 1, g_prev.count))

C25_Witness ==
    /\ g_pc = "done"
    /\ g_fn = "mnemonic"
    /\ g_prev.called
    /\ g_prev.fn = "mnemonic"
    /\ g_prev.key = key
    /\ g_prev.count = 2
    /\ count = RefillWords
    /\ IsPrefix(g_prev.result.str, g_result.str)
    /\ Len(g_prev.result.str) > 2

(***************************************************************************)
(* Properties of the prompts and of the configuration.                     *)
(***************************************************************************)
\* the secret typed at the prompt has no byte left once the white space
\* around it is removed
EnteredEmpty == \A j \in 1..Len(r_entered) : r_entered[j] \in {9, 10, 11, 12, 13, 32}

\* C24: a master secret that is empty, as typed or after trimming and
\* normalisation, is refused with "Master secret cannot be empty"; so the
\* run goes on only with a master secret of at least one byte and
\* derive_hierarchical never runs on an empty master secret.
C24_MasterNotEmpty ==
    /\ (r_pc # "start" /\ EnteredEmpty
            /\ r_error # "Failed to fetch master secret")
          => /\ r_pc = "failed"
             /\ r_error = "Master secret cannot be empty"
    /\ r_pc \in {"layers", "derive", "deriving", "generate", "wordlist",
                 "generating", "display", "exit"}
          => Len(r_master) >= 1
    /\ d_pc # "idle" => Len(master_secret) >= 1

\* C23: k non-empty layers followed by an empty line give Ok with exactly
\* those k layers in the order typed, indexed 1..k, for every k from 1 to
\* 100; "Too many layers" is returned only when more than 100 were typed;
\* an empty first line gives "At least one layer is required".
C23_UpToHundredLayers ==
    pl_pc = "done"
        => /\ pl_entered = 0
                 => pl_result = [tag |-> "err",
                                 err |-> "At least one layer is required"]
           /\ (pl_entered >= 1 /\ pl_entered <= 100)
                 => /\ pl_result.tag = "ok"
                    /\ pl_layers = [j \in 1..pl_entered |->
                                       <<LayerByte, 48 + (j % 10)>>]
                    /\ pl_layer_infos = [j \in 1..pl_entered |-> j]
           /\ pl_result.err = "Too many layers (100 maximum allowed)"
                 => pl_entered > 100

\* C26: the config handed on has memory_kib exactly 1024 times the
\* --kdf-memory value, without 32-bit wrap-around, and the preset's value
\* (65536 or 131072) when no override is given.
C26_MemoryExact ==
    c_pc = "done"
        => IF c_kdf_memory.some
           THEN /\ c_config.memory_kib % 1024 = 0
                /\ c_config.memory_kib \div 1024 = c_kdf_memory.value
           ELSE c_config.memory_kib =
                    IF c_security = "standard" THEN 65536 ELSE 131072

====
